---------------------------- MODULE Spec2Model ----------------------------
(***************************************************************************)
(* BLAKE2b compression function F (src/src/blake2b.rs) and its Python      *)
(* entry points (src/src/lib.rs).                                          *)
(*                                                                         *)
(* Number representation.  A byte is an integer 0..255.  A u64 (and the    *)
(* u32 round count) is the sequence of its bits, least significant first:  *)
(* w[1] is bit 0 and w[64] is bit 63.  TLC's integers are 32 bits wide,    *)
(* so machine words are never held as one integer; every conversion        *)
(* between bytes and words is computed bit by bit.                         *)
(***************************************************************************)
EXTENDS Integers, Sequences, FiniteSets, TLC

(***************************************************************************)
(* Evaluation.  TLC may evaluate an operator's argument, and a name        *)
(* defined in a LET, anew at every place that uses it, while the variable  *)
(* of a set constructor is evaluated once.  Only({F(p) : p \in {e}}) is    *)
(* therefore F(e) with e evaluated once; it is used wherever a value that  *)
(* is costly to compute is used more than once.                            *)
(***************************************************************************)
Only(S) == CHOOSE e \in S : TRUE

\* a sequence given as a function on 1..n, as an enumerated sequence
AsSeq(f) == f \o <<>>

(***************************************************************************)
(* Machine-word primitives of the Rust language used by the source.        *)
(***************************************************************************)

\* u8 -> its 8 bits, least significant first
ByteBits(b) == Only({AsSeq([k \in 1..8 |-> (p \div (2 ^ (k - 1))) % 2]) : p \in {b}})

\* 8 bits of w from place lo on, least significant first -> u8
BitsByte(w, lo) ==
    w[lo] + 2 * w[lo + 1] + 4 * w[lo + 2] + 8 * w[lo + 3] + 16 * w[lo + 4]
    + 32 * w[lo + 5] + 64 * w[lo + 6] + 128 * w[lo + 7]

\* bits of the bytes of a slice, first byte lowest
RECURSIVE LeBits(_)
LeBits(bytes) ==
    Only({IF p = <<>> THEN <<>> ELSE ByteBits(Head(p)) \o LeBits(Tail(p)) :
          p \in {bytes}})

RECURSIVE Reverse(_)
Reverse(s) ==
    Only({IF p = <<>> THEN <<>> ELSE Reverse(Tail(p)) \o <<Head(p)>> : p \in {s}})

\* u64::from_le_bytes / u32::from_be_bytes / u64::to_le_bytes
from_le_bytes(bytes) == LeBits(bytes)
from_be_bytes(bytes) == LeBits(Reverse(bytes))

\* the bytes of a word with the most significant byte first
to_le_bytes_MostSignificantFirst(w) ==
    Only({AsSeq([j \in 1..(Len(p) \div 8) |-> BitsByte(p, Len(p) - 8 * j + 1)]) :
          p \in {w}})

to_le_bytes(w) ==
    Only({AsSeq([j \in 1..(Len(p) \div 8) |-> BitsByte(p, 8 * (j - 1) + 1)]) :
          p \in {w}})

\* a word from its four 16-bit quarters, most significant first (hex literals)
Limb(h) == Only({AsSeq([k \in 1..16 |-> (p \div (2 ^ (k - 1))) % 2]) : p \in {h}})
U64(h3, h2, h1, h0) == Limb(h0) \o Limb(h1) \o Limb(h2) \o Limb(h3)

Zeros(n) == AsSeq([k \in 1..n |-> 0])

\* x ^ y on words
Xor(x, y) ==
    Only({AsSeq([k \in 1..Len(p[1]) |-> (p[1][k] + p[2][k]) % 2]) :
          p \in {<<x, y>>}})

\* x >> n and x << n on a u64 (bits shifted out are lost, zeros shifted in)
Shr(x, n) ==
    Only({AsSeq([k \in 1..Len(p) |-> IF k + n <= Len(p) THEN p[k + n] ELSE 0]) :
          p \in {x}})
Shl(x, n) ==
    Only({AsSeq([k \in 1..Len(p) |-> IF k - n >= 1 THEN p[k - n] ELSE 0]) :
          p \in {x}})

\* the 16-bit quarter i (0 lowest) of a word, as an integer
Quarter(x, i) == BitsByte(x, 16 * i + 1) + 256 * BitsByte(x, 16 * i + 9)

\* the mathematical sum x + y of two u64 as 65 bits (bit 65 is the carry out):
\* the quarters are added from the lowest up, each with the carry of the one
\* below
SumBits(x, y) ==
    Only({LET t0 == q[1]
              t1 == q[2] + t0 \div 65536
              t2 == q[3] + t1 \div 65536
              t3 == q[4] + t2 \div 65536
          IN  Limb(t0 % 65536) \o Limb(t1 % 65536) \o Limb(t2 % 65536)
              \o Limb(t3 % 65536) \o <<t3 \div 65536>> :
          q \in {<<Quarter(p[1], 0) + Quarter(p[2], 0),
                   Quarter(p[1], 1) + Quarter(p[2], 1),
                   Quarter(p[1], 2) + Quarter(p[2], 2),
                   Quarter(p[1], 3) + Quarter(p[2], 3)>> : p \in {<<x, y>>}}})

\* the slice s[a..b] of Rust: elements a, ..., b-1 counted from 0
Slice(s, a, b) == SubSeq(s, a + 1, b)

(***************************************************************************)
(* Constants of blake2b.rs.                                                *)
(***************************************************************************)
SIGMA_SCHEDULE_LEN == 10

\* row r, then entry i, both counted from 0 as in the source
Row(t) == [i \in 0..15 |-> t[i + 1]]
SIGMA_SCHEDULE ==
    [r \in 0..(SIGMA_SCHEDULE_LEN - 1) |->
        Row(<< <<0, 1, 2, 3, 4, 5, 6, 7, 8, 9, 10, 11, 12, 13, 14, 15>>,
               <<14, 10, 4, 8, 9, 15, 13, 6, 1, 12, 0, 2, 11, 7, 5, 3>>,
               <<11, 8, 12, 0, 5, 2, 15, 13, 10, 14, 3, 6, 7, 1, 9, 4>>,
               <<7, 9, 3, 1, 13, 12, 11, 14, 2, 6, 5, 10, 4, 0, 15, 8>>,
               <<9, 0, 5, 7, 2, 4, 10, 15, 14, 1, 11, 12, 6, 8, 3, 13>>,
               <<2, 12, 6, 10, 0, 11, 8, 3, 4, 13, 7, 5, 15, 14, 1, 9>>,
               <<12, 5, 1, 15, 14, 13, 4, 10, 0, 7, 6, 3, 9, 2, 8, 11>>,
               <<13, 11, 7, 14, 12, 1, 3, 9, 5, 0, 15, 4, 8, 6, 2, 10>>,
               <<6, 15, 14, 9, 11, 3, 0, 8, 12, 2, 13, 7, 1, 4, 10, 5>>,
               <<10, 2, 8, 4, 7, 6, 1, 5, 15, 11, 9, 14, 3, 12, 13, 0>> >>[r + 1])]

WORDBITS == 64

\* a mask that has only its low 32 bits set
MASKBITS_LowHalf == AsSeq([k \in 1..WORDBITS |-> IF k <= 32 THEN 1 ELSE 0])

MASKBITS == AsSeq([k \in 1..WORDBITS |-> 1])

IV ==
    [i \in 0..7 |->
        << U64(\h6a09, \he667, \hf3bc, \hc908),
           U64(\hbb67, \hae85, \h84ca, \ha73b),
           U64(\h3c6e, \hf372, \hfe94, \hf82b),
           U64(\ha54f, \hf53a, \h5f1d, \h36f1),
           U64(\h510e, \h527f, \hade6, \h82d1),
           U64(\h9b05, \h688c, \h2b3e, \h6c1f),
           U64(\h1f83, \hd9ab, \hfb41, \hbd6b),
           U64(\h5be0, \hcd19, \h137e, \h2179) >>[i + 1]]

ROT1 == 32
ROT2 == 24
ROT3 == 16
ROT4 == 63

u64_from_le(input) == from_le_bytes(input)

(***************************************************************************)
(* block_to_16_le_words: sixteen u64 read little-endian from the block.    *)
(* Word k is input[8k..8k+8]; the slice indexing needs 128 bytes.          *)
(***************************************************************************)
block_to_16_le_words(input) ==
    [k \in 0..15 |-> u64_from_le(Slice(input, 8 * k, 8 * k + 8))]

(***************************************************************************)
(* rotate_bits(x, n) = (x >> n) ^ (x << (WORDBITS - n))                    *)
(***************************************************************************)
rotate_bits(x, n) == Only({Xor(Shr(p, n), Shl(p, WORDBITS - n)) : p \in {x}})

(***************************************************************************)
(* The `+` of Rust on u64.  Sum is the mathematical sum (65 bits); the     *)
(* value kept is its low 64 bits, and the 65th bit says that the sum did   *)
(* not fit.  What an addition that does not fit does depends on the build: *)
(* with overflow checks (the default of the dev and test profiles) it      *)
(* panics, without them (the default of the release profile) it wraps.     *)
(***************************************************************************)
Sum(x, y) == SumBits(x, y)
Low(s) == SubSeq(s, 1, WORDBITS)
Carry(s) == s[WORDBITS + 1]

(***************************************************************************)
(* G: the eight updates of the mixing function on the working vector.  A   *)
(* mixing state holds the vector computed so far with wrapping additions   *)
(* and whether an addition so far did not fit in 64 bits.                  *)
(***************************************************************************)

\* v[i] = v[i] + v[j] + x
AddWord(st, i, j, x) ==
    Only({[v |-> [q.st.v EXCEPT ![i] = Low(q.s2)],
           overflow |-> q.st.overflow \/ Carry(q.s1) = 1 \/ Carry(q.s2) = 1] :
          q \in {[st |-> p.st, s1 |-> p.s1, s2 |-> Sum(Low(p.s1), x)] :
                 p \in {[st |-> o, s1 |-> Sum(o.v[i], o.v[j])] : o \in {st}}}})

\* v[i] = v[i] + v[j]
Add(st, i, j) ==
    Only({[v |-> [p.st.v EXCEPT ![i] = Low(p.s1)],
           overflow |-> p.st.overflow \/ Carry(p.s1) = 1] :
          p \in {[st |-> o, s1 |-> Sum(o.v[i], o.v[j])] : o \in {st}}})

\* v[i] = rotate_bits(v[i] ^ v[j], n)
XorRotate(st, i, j, n) ==
    Only({[v |-> [o.v EXCEPT ![i] = rotate_bits(Xor(o.v[i], o.v[j]), n)],
           overflow |-> o.overflow] : o \in {st}})

\* the eight statements of G, first to last
G1(st, a, b, c, d, x, y) == AddWord(st, a, b, x)
G2(st, a, b, c, d, x, y) == XorRotate(G1(st, a, b, c, d, x, y), d, a, ROT1)
G3(st, a, b, c, d, x, y) == Add(G2(st, a, b, c, d, x, y), c, d)
G4(st, a, b, c, d, x, y) == XorRotate(G3(st, a, b, c, d, x, y), b, c, ROT2)
G5(st, a, b, c, d, x, y) == AddWord(G4(st, a, b, c, d, x, y), a, b, y)
G6(st, a, b, c, d, x, y) == XorRotate(G5(st, a, b, c, d, x, y), d, a, ROT3)
G7(st, a, b, c, d, x, y) == Add(G6(st, a, b, c, d, x, y), c, d)
G8(st, a, b, c, d, x, y) == XorRotate(G7(st, a, b, c, d, x, y), b, c, ROT4)

G(v, a, b, c, d, x, y) == G8([v |-> v, overflow |-> FALSE], a, b, c, d, x, y)

(***************************************************************************)
(* extract_blake2b_parameters (blake2b.rs).  A Result is a record with     *)
(* tag "Ok" and the tuple in val, or tag "Err" and the message in msg.  A  *)
(* formatted message is the pair of its fixed text and the number printed  *)
(* after it.                                                               *)
(***************************************************************************)
Ok(val) == [tag |-> "Ok", val |-> val]
Err(text, n) == [tag |-> "Err", msg |-> <<text, n>>]

\* a length check that only rejects inputs that are too short
WrongLength_TooShortOnly(input) == Len(input) < 213

\* if input.len() != 213
WrongLength(input) == Len(input) # 213

\* the round count read little-endian like the other fields
RoundsOf_LittleEndian(input) == from_le_bytes(Slice(input, 0, 4))

\* u32::from_be_bytes(input[..4]) as usize
RoundsOf(input) == from_be_bytes(Slice(input, 0, 4))

\* vec![u64_from_le(&input[4..12]), ..., u64_from_le(&input[60..68])]
StateOf(input) ==
    << u64_from_le(Slice(input, 4, 12)),
       u64_from_le(Slice(input, 12, 20)),
       u64_from_le(Slice(input, 20, 28)),
       u64_from_le(Slice(input, 28, 36)),
       u64_from_le(Slice(input, 36, 44)),
       u64_from_le(Slice(input, 44, 52)),
       u64_from_le(Slice(input, 52, 60)),
       u64_from_le(Slice(input, 60, 68)) >>

\* input[68..196].to_vec()
BlockOf(input) == Slice(input, 68, 196)

\* vec![u64_from_le(&input[196..204]), u64_from_le(&input[204..212])]
CountersOf(input) ==
    << u64_from_le(Slice(input, 196, 204)), u64_from_le(Slice(input, 204, 212)) >>

\* a flag match that takes every nonzero byte for true
FlagOf_NonzeroIsTrue(x) == IF x = 0 THEN Ok(FALSE) ELSE Ok(TRUE)

\* match input[212] { 0 => false, 1 => true, x => return Err(..) }
FlagOf(x) ==
    CASE x = 0 -> Ok(FALSE)
      [] x = 1 -> Ok(TRUE)
      [] OTHER -> Err("incorrect final block indicator flag, got: ", x)

extract_blake2b_parameters(input) ==
    IF WrongLength(input)
    THEN Err("input length for Blake2 F precompile should be exactly 213 bytes, got: ",
             Len(input))
    ELSE LET rounds == RoundsOf(input)
             h_starting_state == StateOf(input)
             block == BlockOf(input)
             t_offset_counters == CountersOf(input)
             final_block_flag == FlagOf(input[212 + 1])
         IN  IF final_block_flag.tag = "Err" THEN final_block_flag
             ELSE Ok([rounds |-> rounds,
                      h_starting_state |-> h_starting_state,
                      block |-> block,
                      t_offset_counters |-> t_offset_counters,
                      final_block_flag |-> final_block_flag.val])

(***************************************************************************)
(* blake2b_compress (blake2b.rs), in the pieces its steps are made of.     *)
(* Vec and slice arguments are sequences, so element i of the source is    *)
(* element i + 1 here; the arrays m, v and s are functions on 0..15.       *)
(***************************************************************************)

\* let mut v = [ h_starting_state[0], ..., IV[7] ]
InitialVector(h_starting_state, t_offset_counters, final_block_flag) ==
    [i \in 0..15 |->
        CASE i < 8 -> h_starting_state[i + 1]
          [] i \in 8..11 -> IV[i - 8]
          [] i = 12 -> Xor(t_offset_counters[1], IV[4])
          [] i = 13 -> Xor(t_offset_counters[2], IV[5])
          [] i = 14 -> IF final_block_flag THEN Xor(MASKBITS, IV[6]) ELSE IV[6]
          [] i = 15 -> IV[7]]

\* a schedule index that is one round ahead
ScheduleOf_OneAhead(r) == SIGMA_SCHEDULE[(r + 1) % SIGMA_SCHEDULE_LEN]

\* let s = &SIGMA_SCHEDULE[r % SIGMA_SCHEDULE_LEN]
ScheduleOf(r) == SIGMA_SCHEDULE[r % SIGMA_SCHEDULE_LEN]

\* the eight calls of G in one round, in program order: a, b, c, d and the
\* two positions of s whose message words are mixed in
GCalls ==
    << <<0, 4, 8, 12, 0, 1>>,
       <<1, 5, 9, 13, 2, 3>>,
       <<2, 6, 10, 14, 4, 5>>,
       <<3, 7, 11, 15, 6, 7>>,
       <<0, 5, 10, 15, 8, 9>>,
       <<1, 6, 11, 12, 10, 11>>,
       <<2, 7, 8, 13, 12, 13>>,
       <<3, 4, 9, 14, 14, 15>> >>

\* The body of the loop from its k-th call of G on: the vector it leaves and
\* the calls of G it completed, each with its arguments a, b, c, d, x, y.
\* With overflow checks an addition that does not fit panics, and the call
\* of blake2b_compress ends there; without them the wrapped vector is
\* carried on.
RECURSIVE RoundFrom(_, _, _, _, _)
RoundFrom(v, m, s, k, overflow_checks) ==
    IF k > Len(GCalls) THEN [panicked |-> FALSE, v |-> v, calls |-> <<>>]
    ELSE Only({IF g.overflow /\ overflow_checks
               THEN [panicked |-> TRUE, v |-> v, calls |-> <<>>]
               ELSE Only({[rest EXCEPT !.calls =
                               << <<GCalls[k][1], GCalls[k][2], GCalls[k][3],
                                    GCalls[k][4], m[s[GCalls[k][5]]],
                                    m[s[GCalls[k][6]]]>> >> \o @] :
                          rest \in {RoundFrom(g.v, m, s, k + 1, overflow_checks)}}) :
               g \in {G(v, GCalls[k][1], GCalls[k][2], GCalls[k][3], GCalls[k][4],
                        m[s[GCalls[k][5]]], m[s[GCalls[k][6]]])}})

\* one iteration of `for r in 0..num_rounds`
RoundBody(v, m, r, overflow_checks) ==
    RoundFrom(v, m, ScheduleOf(r), 1, overflow_checks)

\* a result word that leaves the starting state out: (v[i] ^ v[i + 8])
ResultWord_WithoutState(h_starting_state, v, i) == to_le_bytes(Xor(v[i], v[i + 8]))

\* (h_starting_state[i] ^ v[i] ^ v[i + 8]).to_le_bytes()
ResultWord(h_starting_state, v, i) ==
    to_le_bytes(Xor(Xor(h_starting_state[i + 1], v[i]), v[i + 8]))

\* result[i * 8 + j] = *x, for the eight words in order
ResultBytes(h_starting_state, v) ==
    ResultWord(h_starting_state, v, 0) \o ResultWord(h_starting_state, v, 1)
    \o ResultWord(h_starting_state, v, 2) \o ResultWord(h_starting_state, v, 3)
    \o ResultWord(h_starting_state, v, 4) \o ResultWord(h_starting_state, v, 5)
    \o ResultWord(h_starting_state, v, 6) \o ResultWord(h_starting_state, v, 7)

\* The outcome of a call: the 64 bytes returned, or a panic.
Returned(bytes) == [tag |-> "Ok", val |-> bytes]
Panic(why) == [tag |-> "Panic", why |-> why]

\* the loop `for r in 0..num_rounds` from round r on: the working vector it
\* leaves, or that it panicked
RECURSIVE RoundsFrom(_, _, _, _, _)
RoundsFrom(v, m, r, num_rounds, overflow_checks) ==
    IF r >= num_rounds THEN [panicked |-> FALSE, v |-> v]
    ELSE Only({IF body.panicked THEN body
               ELSE RoundsFrom(body.v, m, r + 1, num_rounds, overflow_checks) :
               body \in {RoundBody(v, m, r, overflow_checks)}})

\* A whole call of blake2b_compress run on its own.  The slice indexing of
\* block_to_16_le_words and the indexing of the two vectors panic when an
\* argument is too short.
blake2b_compress(num_rounds, h_starting_state, block, t_offset_counters, final_block_flag, overflow_checks) ==
    IF Len(block) < 128 THEN Panic("range end index out of range for slice")
    ELSE IF Len(h_starting_state) < 8 \/ Len(t_offset_counters) < 2
    THEN Panic("index out of bounds")
    ELSE Only({IF loop.panicked THEN Panic("attempt to add with overflow")
               ELSE Returned(ResultBytes(h_starting_state, loop.v)) :
               loop \in {RoundsFrom(InitialVector(h_starting_state,
                                                  t_offset_counters,
                                                  final_block_flag),
                                    block_to_16_le_words(block), 0, num_rounds,
                                    overflow_checks)}})

(***************************************************************************)
(* The test vectors of blake2b.rs.  Every FAST_EXAMPLES and ERROR_EXAMPLES *)
(* input is a round count, the same 64 bytes of state, the block "abc"     *)
(* padded with zeros, the counters (3, 0) and a flag byte.                 *)
(***************************************************************************)
ExampleState ==
    << \h48, \hc9, \hbd, \hf2, \h67, \he6, \h09, \h6a,
       \h3b, \ha7, \hca, \h84, \h85, \hae, \h67, \hbb,
       \h2b, \hf8, \h94, \hfe, \h72, \hf3, \h6e, \h3c,
       \hf1, \h36, \h1d, \h5f, \h3a, \hf5, \h4f, \ha5,
       \hd1, \h82, \he6, \had, \h7f, \h52, \h0e, \h51,
       \h1f, \h6c, \h3e, \h2b, \h8c, \h68, \h05, \h9b,
       \h6b, \hbd, \h41, \hfb, \hab, \hd9, \h83, \h1f,
       \h79, \h21, \h7e, \h13, \h19, \hcd, \he0, \h5b >>

ExampleBlock == <<\h61, \h62, \h63>> \o Zeros(125)

ExampleCounters == <<\h03>> \o Zeros(15)

ExampleInput(rounds, flag) ==
    rounds \o ExampleState \o ExampleBlock \o ExampleCounters \o <<flag>>

FAST_EXAMPLES ==
    << [input |-> ExampleInput(<<\h00, \h00, \h00, \h00>>, \h01),
        expected |->
            << \h08, \hc9, \hbc, \hf3, \h67, \he6, \h09, \h6a,
               \h3b, \ha7, \hca, \h84, \h85, \hae, \h67, \hbb,
               \h2b, \hf8, \h94, \hfe, \h72, \hf3, \h6e, \h3c,
               \hf1, \h36, \h1d, \h5f, \h3a, \hf5, \h4f, \ha5,
               \hd2, \h82, \he6, \had, \h7f, \h52, \h0e, \h51,
               \h1f, \h6c, \h3e, \h2b, \h8c, \h68, \h05, \h9b,
               \h94, \h42, \hbe, \h04, \h54, \h26, \h7c, \he0,
               \h79, \h21, \h7e, \h13, \h19, \hcd, \he0, \h5b >>],
       [input |-> ExampleInput(<<\h00, \h00, \h00, \h0c>>, \h01),
        expected |->
            << \hba, \h80, \ha5, \h3f, \h98, \h1c, \h4d, \h0d,
               \h6a, \h27, \h97, \hb6, \h9f, \h12, \hf6, \he9,
               \h4c, \h21, \h2f, \h14, \h68, \h5a, \hc4, \hb7,
               \h4b, \h12, \hbb, \h6f, \hdb, \hff, \ha2, \hd1,
               \h7d, \h87, \hc5, \h39, \h2a, \hab, \h79, \h2d,
               \hc2, \h52, \hd5, \hde, \h45, \h33, \hcc, \h95,
               \h18, \hd3, \h8a, \ha8, \hdb, \hf1, \h92, \h5a,
               \hb9, \h23, \h86, \hed, \hd4, \h00, \h99, \h23 >>],
       [input |-> ExampleInput(<<\h00, \h00, \h00, \h0c>>, \h00),
        expected |->
            << \h75, \hab, \h69, \hd3, \h19, \h0a, \h56, \h2c,
               \h51, \hae, \hf8, \hd8, \h8f, \h1c, \h27, \h75,
               \h87, \h69, \h44, \h40, \h72, \h70, \hc4, \h2c,
               \h98, \h44, \h25, \h2c, \h26, \hd2, \h87, \h52,
               \h98, \h74, \h3e, \h7f, \h6d, \h5e, \ha2, \hf2,
               \hd3, \he8, \hd2, \h26, \h03, \h9c, \hd3, \h1b,
               \h4e, \h42, \h6a, \hc4, \hf2, \hd3, \hd6, \h66,
               \ha6, \h10, \hc2, \h11, \h6f, \hde, \h47, \h35 >>],
       [input |-> ExampleInput(<<\h00, \h00, \h00, \h01>>, \h01),
        expected |->
            << \hb6, \h3a, \h38, \h0c, \hb2, \h89, \h7d, \h52,
               \h19, \h94, \ha8, \h52, \h34, \hee, \h2c, \h18,
               \h1b, \h5f, \h84, \h4d, \h2c, \h62, \h4c, \h00,
               \h26, \h77, \he9, \h70, \h34, \h49, \hd2, \hfb,
               \ha5, \h51, \hb3, \ha8, \h33, \h3b, \hcd, \hf5,
               \hf2, \hf7, \he0, \h89, \h93, \hd5, \h39, \h23,
               \hde, \h3d, \h64, \hfc, \hc6, \h8c, \h03, \h4e,
               \h71, \h7b, \h92, \h93, \hfe, \hd7, \ha4, \h21 >>] >>

ERROR_EXAMPLES ==
    << <<>>,
       ExampleInput(<<\h00, \h00, \h0c>>, \h01),
       ExampleInput(<<\h00, \h00, \h00, \h00, \h0c>>, \h01),
       ExampleInput(<<\h00, \h00, \h00, \h0c>>, \h02) >>

(***************************************************************************)
(* The Python entry points (lib.rs).  A PyResult is a record with tag "Ok" *)
(* or tag "ValueError" and the message.                                    *)
(***************************************************************************)
ValueError(msg) == [tag |-> "ValueError", msg |-> msg]
value_error(text, n) == ValueError(<<text, n>>)

\* #[pyfunction] extract_blake2b_parameters
py_extract_blake2b_parameters(input) ==
    LET result == extract_blake2b_parameters(input)
    IN  IF result.tag = "Err" THEN ValueError(result.msg)
        ELSE Ok([rounds |-> result.val.rounds,
                 h_starting_state |-> result.val.h_starting_state,
                 block |-> result.val.block,
                 t_offset_counters |-> result.val.t_offset_counters,
                 final_block_flag |-> result.val.final_block_flag])

\* #[pyfunction] blake2b_compress
py_blake2b_compress(num_rounds, h_starting_state, block, t_offset_counters, final_block_flag, overflow_checks) ==
    IF Len(h_starting_state) # 8
    THEN value_error("starting state vector must have length 8, got: ",
                     Len(h_starting_state))
    ELSE IF Len(block) # 16
    THEN value_error("block vector must have length 16, got: ", Len(block))
    ELSE IF Len(t_offset_counters) # 2
    THEN value_error("offset counters vector must have length 2, got: ",
                     Len(t_offset_counters))
    ELSE blake2b_compress(num_rounds, h_starting_state, block,
                          t_offset_counters, final_block_flag, overflow_checks)

(***************************************************************************)
(* Bounds of the model and the inputs the calls are made with.             *)
(***************************************************************************)
\* the largest round count a modelled call of blake2b_compress is given
MaxRounds == 12
\* the number of calls that can be in progress at the same time
NumCalls == 2

Calls == 1..NumCalls

\* n bytes that differ from place to place and use all eight bits
Pattern(n, a) == AsSeq([k \in 1..n |-> (a * k + 11) % 256])

MakeInput(rounds, state, block, counters, flag) ==
    rounds \o state \o block \o counters \o <<flag>>

\* round counts a call can be run with, and some it is only decoded with
SmallRounds == {<<0, 0, 0, n>> : n \in 0..MaxRounds}
LargeRounds == {<<255, 255, 255, 255>>, <<128, 0, 0, 0>>, <<1, 2, 3, 4>>}

StateChoices == {ExampleState, Pattern(64, 7)}
BlockChoices == {ExampleBlock, Pattern(128, 13)}
CounterChoices == {ExampleCounters, Pattern(16, 29)}

\* 213 bytes with a flag byte of 0 or 1
ValidInputs ==
    {MakeInput(rounds, ExampleState, ExampleBlock, ExampleCounters, flag) :
        rounds \in SmallRounds \cup LargeRounds, flag \in {0, 1}}
    \cup
    {MakeInput(rounds, state, block, counters, flag) :
        rounds \in {<<0, 0, 0, 0>>, <<0, 0, 0, 2>>}, state \in StateChoices,
        block \in BlockChoices, counters \in CounterChoices, flag \in {0, 1}}

\* 213 bytes with every value of the flag byte
FlagInputs ==
    {MakeInput(<<0, 0, 0, 1>>, state, ExampleBlock, Pattern(16, 29), flag) :
        state \in StateChoices, flag \in 0..255}

\* byte sequences of other lengths, some ending in a byte that is no flag
LengthBases ==
    {ExampleInput(<<0, 0, 0, 12>>, 1),
     MakeInput(<<0, 0, 1, 0>>, Pattern(64, 7), Pattern(128, 13), Pattern(16, 29), 2)}
LengthInputs ==
    {SubSeq(base, 1, n) : base \in LengthBases, n \in {0, 1, 4, 68, 196, 212}}
    \cup {base \o more : base \in LengthBases,
                         more \in {<<0>>, <<1>>, <<5>>, Pattern(213, 3)}}

Inputs ==
    {FAST_EXAMPLES[i].input : i \in 1..4} \cup {ERROR_EXAMPLES[i] : i \in 1..4}
    \cup ValidInputs \cup FlagInputs \cup LengthInputs

\* the inputs of the calls that run at the same time
ConcurrentInputs ==
    {ExampleInput(<<0, 0, 0, 1>>, 1),
     MakeInput(<<0, 0, 0, 2>>, Pattern(64, 7), Pattern(128, 13), Pattern(16, 29), 0)}

\* the round count as the usize the loop counts to, when it is one the
\* model runs
Runnable(rounds) == Quarter(rounds, 1) = 0 /\ Quarter(rounds, 0) <= MaxRounds
AsUsize(rounds) == Quarter(rounds, 0)

(***************************************************************************)
(* State.  overflow_checks is the build: whether `+` panics on overflow.   *)
(* Everything else is per call: where the call is (pc), the bytes given to *)
(* the decoder (input), what the decoder returned (ret), the arguments of  *)
(* blake2b_compress (args), its locals m, v, r and s, the calls of G that  *)
(* the round it started last has completed (g_done), and what it returned  *)
(* (result).  g_call is one call of G made on its own: its arguments and   *)
(* what it left.  NoValue stands for a local that does not exist yet.      *)
(***************************************************************************)
VARIABLES overflow_checks, pc, input, ret, args, m, v, r, s, result, g_done, g_call

vars == <<overflow_checks, pc, input, ret, args, m, v, r, s, result, g_done, g_call>>

NoValue == <<>>

Init ==
    /\ overflow_checks \in BOOLEAN
    /\ pc = [c \in Calls |-> "idle"]
    /\ input = [c \in Calls |-> NoValue]
    /\ ret = [c \in Calls |-> NoValue]
    /\ args = [c \in Calls |-> NoValue]
    /\ m = [c \in Calls |-> NoValue]
    /\ v = [c \in Calls |-> NoValue]
    /\ r = [c \in Calls |-> NoValue]
    /\ s = [c \in Calls |-> NoValue]
    /\ result = [c \in Calls |-> NoValue]
    /\ g_done = [c \in Calls |-> NoValue]
    /\ g_call = NoValue

\* a working vector that is one static buffer used by every call
VectorSlot_Shared(c) == 1

\* The working vector is a local of the call (`let mut v`): call c keeps it
\* in a place of its own.
VectorSlot(c) == c

\* a caller hands a byte sequence to the decoder
Extract(c, bytes) ==
    /\ pc[c] = "idle"
    /\ input' = [input EXCEPT ![c] = bytes]
    /\ ret' = [ret EXCEPT ![c] = extract_blake2b_parameters(bytes)]
    /\ pc' = [pc EXCEPT ![c] = "extracted"]
    /\ UNCHANGED <<overflow_checks, args, m, v, r, s, result, g_done, g_call>>

\* the caller passes the decoded tuple to blake2b_compress, which splits the
\* block and fills the working vector
CompressBegin(c) ==
    /\ pc[c] = "extracted"
    /\ ret[c].tag = "Ok"
    /\ Runnable(ret[c].val.rounds)
    /\ args' = [args EXCEPT ![c] =
                   [num_rounds |-> AsUsize(ret[c].val.rounds),
                    h_starting_state |-> ret[c].val.h_starting_state,
                    block |-> ret[c].val.block,
                    t_offset_counters |-> ret[c].val.t_offset_counters,
                    final_block_flag |-> ret[c].val.final_block_flag]]
    /\ m' = [m EXCEPT ![c] = block_to_16_le_words(ret[c].val.block)]
    /\ v' = [v EXCEPT ![VectorSlot(c)] =
                InitialVector(ret[c].val.h_starting_state,
                              ret[c].val.t_offset_counters,
                              ret[c].val.final_block_flag)]
    /\ r' = [r EXCEPT ![c] = 0]
    /\ pc' = [pc EXCEPT ![c] = "rounds"]
    /\ UNCHANGED <<overflow_checks, input, ret, s, result, g_done, g_call>>

\* one iteration of the loop: the schedule is selected and G is called eight
\* times; an addition that panics ends the call
Round(c) ==
    /\ pc[c] = "rounds"
    /\ r[c] < args[c].num_rounds
    /\ \E body \in {RoundBody(v[VectorSlot(c)], m[c], r[c], overflow_checks)} :
           /\ s' = [s EXCEPT ![c] = ScheduleOf(r[c])]
           /\ g_done' = [g_done EXCEPT ![c] = body.calls]
           /\ IF body.panicked
              THEN /\ pc' = [pc EXCEPT ![c] = "panicked"]
                   /\ result' = [result EXCEPT ![c] =
                                    Panic("attempt to add with overflow")]
                   /\ UNCHANGED <<v, r>>
              ELSE /\ v' = [v EXCEPT ![VectorSlot(c)] = body.v]
                   /\ r' = [r EXCEPT ![c] = r[c] + 1]
                   /\ UNCHANGED <<pc, result>>
    /\ UNCHANGED <<overflow_checks, input, ret, args, m, g_call>>

\* the loop is over: the result is computed and returned
Finish(c) ==
    /\ pc[c] = "rounds"
    /\ r[c] >= args[c].num_rounds
    /\ result' = [result EXCEPT ![c] =
                     Returned(ResultBytes(args[c].h_starting_state,
                                          v[VectorSlot(c)]))]
    /\ pc' = [pc EXCEPT ![c] = "returned"]
    /\ UNCHANGED <<overflow_checks, input, ret, args, m, v, r, s, g_done, g_call>>

\* a Python caller hands a byte sequence to the module's decoder
PyExtract(c, bytes) ==
    /\ pc[c] = "idle"
    /\ input' = [input EXCEPT ![c] = bytes]
    /\ ret' = [ret EXCEPT ![c] = py_extract_blake2b_parameters(bytes)]
    /\ pc' = [pc EXCEPT ![c] = "py_extracted"]
    /\ UNCHANGED <<overflow_checks, args, m, v, r, s, result, g_done, g_call>>

\* the lists a Python caller can pass as the block: the one the decoder
\* returned, or its first sixteen elements
BlocksToPass(block) == {block, SubSeq(block, 1, 16)}

\* the Python caller passes the tuple on to the module's blake2b_compress
PyCompress(c) ==
    /\ pc[c] = "py_extracted"
    /\ ret[c].tag = "Ok"
    /\ Runnable(ret[c].val.rounds)
    /\ \E block \in BlocksToPass(ret[c].val.block) :
        /\ args' = [args EXCEPT ![c] =
                       [num_rounds |-> AsUsize(ret[c].val.rounds),
                        h_starting_state |-> ret[c].val.h_starting_state,
                        block |-> block,
                        t_offset_counters |-> ret[c].val.t_offset_counters,
                        final_block_flag |-> ret[c].val.final_block_flag]]
        /\ result' = [result EXCEPT ![c] =
                         py_blake2b_compress(AsUsize(ret[c].val.rounds),
                                             ret[c].val.h_starting_state,
                                             block,
                                             ret[c].val.t_offset_counters,
                                             ret[c].val.final_block_flag,
                                             overflow_checks)]
    /\ pc' = [pc EXCEPT ![c] = "py_returned"]
    /\ UNCHANGED <<overflow_checks, input, ret, m, v, r, s, g_done, g_call>>

\* the call is over and the caller drops what it holds; nothing of the call
\* is left
Return(c) ==
    /\ pc[c] \in {"extracted", "py_extracted", "returned", "panicked", "py_returned"}
    /\ pc' = [pc EXCEPT ![c] = "idle"]
    /\ input' = [input EXCEPT ![c] = NoValue]
    /\ ret' = [ret EXCEPT ![c] = NoValue]
    /\ args' = [args EXCEPT ![c] = NoValue]
    /\ m' = [m EXCEPT ![c] = NoValue]
    /\ v' = [v EXCEPT ![c] = NoValue]
    /\ r' = [r EXCEPT ![c] = NoValue]
    /\ s' = [s EXCEPT ![c] = NoValue]
    /\ result' = [result EXCEPT ![c] = NoValue]
    /\ g_done' = [g_done EXCEPT ![c] = NoValue]
    /\ UNCHANGED <<overflow_checks, g_call>>

\* One caller, one call after the other, through either interface.
Next ==
    \/ \E bytes \in Inputs : Extract(1, bytes)
    \/ CompressBegin(1)
    \/ Round(1)
    \/ Finish(1)
    \/ \E bytes \in Inputs : PyExtract(1, bytes)
    \/ PyCompress(1)
    \/ Return(1)

Spec == Init /\ [][Next]_vars

\* NumCalls callers, their calls of the two core functions interleaved.
NextConcurrent ==
    \E c \in Calls :
        \/ \E bytes \in ConcurrentInputs : Extract(c, bytes)
        \/ CompressBegin(c)
        \/ Round(c)
        \/ Finish(c)
        \/ Return(c)

SpecConcurrent == Init /\ [][NextConcurrent]_vars

\* the vectors, index quadruples and message words G is called with on its
\* own: vectors that make no addition overflow, vectors that make every
\* addition overflow, and the vectors the examples start from
GVectors ==
    {[i \in 0..15 |-> Zeros(WORDBITS)],
     [i \in 0..15 |-> MASKBITS],
     [i \in 0..15 |-> from_le_bytes(<<i + 1, 0, 0, 0, 0, 0, 0, 0>>)],
     [i \in 0..15 |-> from_le_bytes(Pattern(8, 16 * i + 5))],
     InitialVector(StateOf(FAST_EXAMPLES[1].input), CountersOf(FAST_EXAMPLES[1].input), TRUE),
     InitialVector(StateOf(<<0, 0, 0, 0>> \o Pattern(64, 7)), CountersOf(Zeros(196) \o Pattern(16, 29)), FALSE)}

GIndices == {<<GCalls[k][1], GCalls[k][2], GCalls[k][3], GCalls[k][4]>> : k \in 1..Len(GCalls)}

GWords == {Zeros(WORDBITS), MASKBITS, from_le_bytes(Pattern(8, 13))}

\* G is called on a working vector with four indices and two message words.
\* It updates the vector in place; with overflow checks an addition that
\* does not fit panics and nothing is left to the caller.
GCall(vec, a, b, c, d, x, y) ==
    /\ g_call = NoValue
    /\ \E g \in {G(vec, a, b, c, d, x, y)} :
        g_call' = [v |-> vec, a |-> a, b |-> b, c |-> c, d |-> d, x |-> x, y |-> y,
                   panicked |-> g.overflow /\ overflow_checks,
                   after |-> IF g.overflow /\ overflow_checks THEN NoValue ELSE g.v]
    /\ UNCHANGED <<overflow_checks, pc, input, ret, args, m, v, r, s, result, g_done>>

\* the caller of G goes on
GReturn ==
    /\ g_call # NoValue
    /\ g_call' = NoValue
    /\ UNCHANGED <<overflow_checks, pc, input, ret, args, m, v, r, s, result, g_done>>

\* G called on its own, one call after the other.
NextG ==
    \/ \E vec \in GVectors : \E i \in GIndices : \E x \in GWords : \E y \in GWords :
           GCall(vec, i[1], i[2], i[3], i[4], x, y)
    \/ GReturn

SpecG == Init /\ [][NextG]_vars

(***************************************************************************)
(* Properties of the decoder.                                              *)
(***************************************************************************)

\* bit j (0 lowest) of a byte
BitOf(byte, j) == (byte \div (2 ^ j)) % 2

\* C1: extract_blake2b_parameters applied to a byte sequence whose length is
\* not 213 returns the length error, whose message ends in the length
\* received, and no tuple, whatever the bytes are (also when the last byte
\* or byte 212 is no flag: the length is checked before the flag).
C1_LengthError ==
    \A c \in Calls :
        (pc[c] = "extracted" /\ Len(input[c]) # 213) =>
            /\ ret[c].tag = "Err"
            /\ ret[c].msg[1] = "input length for Blake2 F precompile should be exactly 213 bytes, got: "
            /\ ret[c].msg[2] = Len(input[c])

\* C1 witness: a 214-byte input whose byte 212 and last byte are no flags
\* has been decoded to an error.
C1_Witness ==
    /\ pc[1] = "extracted"
    /\ Len(input[1]) = 214
    /\ input[1][213] = 2
    /\ input[1][214] = 5
    /\ ret[1].tag = "Err"

\* C2: for a 213-byte input the flag is false when byte 212 is 0 and true
\* when it is 1; for each other value of byte 212 the result is the flag
\* error, whose message ends in that byte, and no tuple.
C2_FlagByte ==
    \A c \in Calls :
        (pc[c] = "extracted" /\ Len(input[c]) = 213) =>
            /\ input[c][213] = 0 =>
                ret[c].tag = "Ok" /\ ret[c].val.final_block_flag = FALSE
            /\ input[c][213] = 1 =>
                ret[c].tag = "Ok" /\ ret[c].val.final_block_flag = TRUE
            /\ input[c][213] \notin {0, 1} =>
                /\ ret[c].tag = "Err"
                /\ ret[c].msg[1] = "incorrect final block indicator flag, got: "
                /\ ret[c].msg[2] = input[c][213]

\* C2 witness: a 213-byte input with flag byte 255 has been decoded to an
\* error.
C2_Witness ==
    /\ pc[1] = "extracted"
    /\ Len(input[1]) = 213
    /\ input[1][213] = 255
    /\ ret[1].tag = "Err"

\* C3: for a 213-byte input with flag byte 0 or 1 the result is a tuple in
\* which bit k of rounds is bit k mod 8 of byte 3 - k div 8 (big-endian),
\* bit k of state word i is bit k mod 8 of byte 4 + 8i + k div 8
\* (little-endian), the block is bytes [68,196), and bit k of counter word j
\* is bit k mod 8 of byte 196 + 8j + k div 8, and the flag is byte 212; every
\* round count is accepted.
C3_FieldLayout ==
    \A c \in Calls :
        (pc[c] = "extracted" /\ Len(input[c]) = 213 /\ input[c][213] \in {0, 1}) =>
            /\ ret[c].tag = "Ok"
            /\ Len(ret[c].val.rounds) = 32
            /\ \A k \in 0..31 :
                ret[c].val.rounds[k + 1] = BitOf(input[c][(3 - k \div 8) + 1], k % 8)
            /\ Len(ret[c].val.h_starting_state) = 8
            /\ \A i \in 0..7 :
                /\ Len(ret[c].val.h_starting_state[i + 1]) = 64
                /\ \A k \in 0..63 :
                    ret[c].val.h_starting_state[i + 1][k + 1]
                        = BitOf(input[c][(4 + 8 * i + k \div 8) + 1], k % 8)
            /\ Len(ret[c].val.block) = 128
            /\ \A k \in 0..127 : ret[c].val.block[k + 1] = input[c][(68 + k) + 1]
            /\ Len(ret[c].val.t_offset_counters) = 2
            /\ \A j \in 0..1 :
                /\ Len(ret[c].val.t_offset_counters[j + 1]) = 64
                /\ \A k \in 0..63 :
                    ret[c].val.t_offset_counters[j + 1][k + 1]
                        = BitOf(input[c][(196 + 8 * j + k \div 8) + 1], k % 8)
            /\ ret[c].val.final_block_flag = (input[c][(212) + 1] = 1)

\* C3 witness: an input whose round count is 0xffffffff and whose other
\* fields are the example's has been decoded to a tuple.
C3_Witness ==
    /\ pc[1] = "extracted"
    /\ Len(input[1]) = 213
    /\ SubSeq(input[1], 1, 4) = <<255, 255, 255, 255>>
    /\ ret[1].tag = "Ok"
    /\ ret[1].val.block = ExampleBlock

(***************************************************************************)
(* Properties of the compression function.                                 *)
(***************************************************************************)

\* a call of blake2b_compress on a decoded tuple has ended
Ended(c) == pc[c] \in {"returned", "panicked"}

\* C4: blake2b_compress never fails on its typed domain: a call that has
\* ended has returned 64 bytes, an addition in G whose sum exceeds 2^64 - 1
\* having wrapped and never aborted the call.
C4_CompressNeverFails ==
    \A c \in Calls :
        Ended(c) => result[c].tag = "Ok" /\ Len(result[c].val) = 64

\* C5: blake2b_compress applied to the fields decoded from each of the four
\* FAST_EXAMPLES inputs returns the digest listed with it, and the digests
\* listed for rounds = 12 with final = true and final = false differ.
C5_ExamplesYieldDigests ==
    /\ \A c \in Calls : \A i \in 1..4 :
        (Ended(c) /\ input[c] = FAST_EXAMPLES[i].input) =>
            result[c] = Returned(FAST_EXAMPLES[i].expected)
    /\ FAST_EXAMPLES[2].expected # FAST_EXAMPLES[3].expected

\* In a build whose additions wrap, the four digests are the ones returned.
ExamplesYieldDigestsWhenWrapping ==
    \A c \in Calls : \A i \in 1..4 :
        (~overflow_checks /\ Ended(c) /\ input[c] = FAST_EXAMPLES[i].input) =>
            result[c] = Returned(FAST_EXAMPLES[i].expected)

\* every bit of a word inverted
Inverted(w) == [k \in 1..Len(w) |-> 1 - w[k]]

\* the eight result words of a call with round count 0
ZeroRoundWords(t_offset_counters, final_block_flag) ==
    << IV[0], IV[1], IV[2], IV[3],
       Xor(t_offset_counters[1], IV[4]), Xor(t_offset_counters[2], IV[5]),
       IF final_block_flag THEN Inverted(IV[6]) ELSE IV[6],
       IV[7] >>

\* C6: with round count 0 no round is executed and the call returns; the
\* working vector is the freshly initialised one and result word i is
\* IV[0], IV[1], IV[2], IV[3], counters[0] XOR IV[4], counters[1] XOR IV[5],
\* IV[6] (inverted when the flag is true), IV[7] for i = 0..7, whatever the
\* starting state and the block are.
C6_ZeroRounds ==
    \A c \in Calls :
        (pc[c] \in {"rounds", "returned", "panicked"} /\ args[c].num_rounds = 0) =>
            /\ pc[c] # "panicked"
            /\ r[c] = 0
            /\ s[c] = NoValue
            /\ v[c] = InitialVector(args[c].h_starting_state,
                                    args[c].t_offset_counters,
                                    args[c].final_block_flag)
            /\ pc[c] = "returned" =>
                /\ result[c].tag = "Ok"
                /\ Len(result[c].val) = 64
                /\ \A i \in 0..7 : \A j \in 0..7 : \A k \in 0..7 :
                    BitOf(result[c].val[(8 * i + j) + 1], k)
                        = ZeroRoundWords(args[c].t_offset_counters,
                                         args[c].final_block_flag)[i + 1][(8 * j + k) + 1]

\* C6 witness: a call with round count 0, the flag true, and a state and a
\* block that are not the example's has returned.
C6_Witness ==
    /\ pc[1] = "returned"
    /\ args[1].num_rounds = 0
    /\ args[1].final_block_flag
    /\ args[1].block = Pattern(128, 13)
    /\ args[1].h_starting_state # StateOf(FAST_EXAMPLES[1].input)

\* the working vector a call with the arguments of call c and round count n
\* has after its last round
VectorAfter(c, n) ==
    RoundsFrom(InitialVector(args[c].h_starting_state, args[c].t_offset_counters,
                             args[c].final_block_flag),
               block_to_16_le_words(args[c].block), 0, n, overflow_checks).v

\* C7 as stated: a call with round count 11 selects SIGMA[11 mod 10] =
\* SIGMA[1] in its 11th round, and after its first 10 rounds its working
\* vector is the one a call with round count 10 ends with.
C7_EleventhRoundUsesSigma1 ==
    \A c \in Calls :
        (pc[c] \in {"rounds", "returned"} /\ args[c].num_rounds = 11) =>
            /\ r[c] = 11 => s[c] = SIGMA_SCHEDULE[1]
            /\ r[c] = 10 => v[c] = VectorAfter(c, 10)

\* C7 amended: a call with round count 11 selects SIGMA[10 mod 10] =
\* SIGMA[0] in its 11th round (the round with r = 10); after its first 10
\* rounds its working vector is the one a call with round count 10 on the
\* same arguments ends with, and the 11th round changes it.
C7_EleventhRoundUsesSigma0 ==
    \A c \in Calls :
        (pc[c] \in {"rounds", "returned"} /\ args[c].num_rounds = 11) =>
            /\ r[c] = 11 => s[c] = SIGMA_SCHEDULE[0] /\ v[c] # VectorAfter(c, 10)
            /\ r[c] = 10 => s[c] = SIGMA_SCHEDULE[9] /\ v[c] = VectorAfter(c, 10)

\* C7 witness: the 11th round of a call with round count 11 has been
\* executed.
C7_Witness ==
    /\ pc[1] = "rounds"
    /\ args[1].num_rounds = 11
    /\ r[1] = 11
    /\ s[1] = SIGMA_SCHEDULE[0]

\* C8: with calls interleaved in any order, what each call holds is what
\* the same call run alone gives: the decoder's result is that of the
\* decoder on the call's input, the words m and the working vector of a call
\* in progress are those the call's own arguments lead to after r rounds, a
\* call that has ended has the outcome of blake2b_compress on its arguments,
\* a call that has returned to its caller has left nothing behind, and two
\* calls with the same arguments have the same outcome.
C8_CallsAreIndependent ==
    /\ \A c \in Calls :
        /\ pc[c] = "extracted" => ret[c] = extract_blake2b_parameters(input[c])
        /\ pc[c] = "rounds" =>
            /\ m[c] = block_to_16_le_words(args[c].block)
            /\ v[c] = VectorAfter(c, r[c])
        /\ Ended(c) =>
            result[c] = blake2b_compress(args[c].num_rounds,
                                         args[c].h_starting_state,
                                         args[c].block,
                                         args[c].t_offset_counters,
                                         args[c].final_block_flag,
                                         overflow_checks)
        /\ pc[c] = "idle" =>
            /\ v[c] = NoValue
            /\ m[c] = NoValue
            /\ result[c] = NoValue
    /\ \A c1, c2 \in Calls :
        (Ended(c1) /\ Ended(c2) /\ args[c1] = args[c2]) => result[c1] = result[c2]

\* C8 witness: two calls with different arguments are both inside their
\* loops, one of them a round ahead of the other.
C8_Witness ==
    /\ pc[1] = "rounds"
    /\ pc[2] = "rounds"
    /\ args[1] # args[2]
    /\ r[1] = 1
    /\ r[2] = 2

\* C9: the tuple the module's extract_blake2b_parameters returns, passed
\* unchanged to the module's blake2b_compress, passes the three length
\* checks, raises no ValueError and gives 64 bytes.
C9_TuplePassesLengthChecks ==
    \A c \in Calls :
        (pc[c] = "py_returned" /\ args[c].block = ret[c].val.block) =>
            /\ result[c].tag = "Ok"
            /\ Len(result[c].val) = 64

\* C10: a call with round count n executes exactly n rounds, r counting
\* 0, 1, ..., n - 1, and then returns a result; no round count makes it fail
\* or stop before n rounds or go on after them.
C10_ExactlyNRounds ==
    \A c \in Calls :
        /\ pc[c] = "rounds" => r[c] \in 0..args[c].num_rounds
        /\ Ended(c) =>
            /\ pc[c] = "returned"
            /\ r[c] = args[c].num_rounds
            /\ result[c].tag = "Ok"

\* In a build whose additions wrap, every call ends after exactly
\* num_rounds rounds.
ExactlyNRoundsWhenWrapping ==
    \A c \in Calls :
        (~overflow_checks /\ Ended(c)) =>
            pc[c] = "returned" /\ r[c] = args[c].num_rounds

(***************************************************************************)
(* Properties of the rounds, the working vector, G and the result.         *)
(***************************************************************************)

\* the round call c started last: the one that panicked, or the one before
\* the next to run
LastRound(c) == IF pc[c] = "panicked" THEN r[c] ELSE r[c] - 1

\* the eight calls of G of a round with schedule t on message words w, as
\* the claim lists them
EightCalls(w, t) ==
    << <<0, 4, 8, 12, w[t[0]], w[t[1]]>>,
       <<1, 5, 9, 13, w[t[2]], w[t[3]]>>,
       <<2, 6, 10, 14, w[t[4]], w[t[5]]>>,
       <<3, 7, 11, 15, w[t[6]], w[t[7]]>>,
       <<0, 5, 10, 15, w[t[8]], w[t[9]]>>,
       <<1, 6, 11, 12, w[t[10]], w[t[11]]>>,
       <<2, 7, 8, 13, w[t[12]], w[t[13]]>>,
       <<3, 4, 9, 14, w[t[14]], w[t[15]]>> >>

\* the block of call c is the one the decoder returned, and bit b of byte j
\* of message word k is bit b of byte 8k + j of the block
BlockReadLittleEndian(c) ==
    /\ args[c].block = ret[c].val.block
    /\ \A k \in 0..15 : \A j \in 0..7 : \A b \in 0..7 :
        m[c][k][(8 * j + b) + 1] = BitOf(args[c].block[(8 * k + j) + 1], b)

\* C11: round r of blake2b_compress selects s = SIGMA[r mod 10], the index
\* being in 0..9, and applies G exactly eight times, to the columns and then
\* the diagonals in the listed order with the message pairs (m[s[0]],
\* m[s[1]]) ... (m[s[14]], m[s[15]]); m[k] is bytes [8k, 8k + 8) of the
\* block read little-endian, and the block is never written.
C11_RoundAppliesGEightTimes ==
    \A c \in Calls :
        pc[c] \in {"rounds", "returned", "panicked"} =>
            /\ BlockReadLittleEndian(c)
            /\ s[c] # NoValue =>
                /\ LastRound(c) % 10 \in 0..9
                /\ s[c] = SIGMA_SCHEDULE[LastRound(c) % 10]
                /\ Len(g_done[c]) = 8
                /\ g_done[c] = EightCalls(m[c], s[c])

\* In a build whose additions wrap, every round that was started made the
\* eight calls of G in the listed order.
RoundAppliesGEightTimesWhenWrapping ==
    \A c \in Calls :
        (~overflow_checks /\ pc[c] \in {"rounds", "returned", "panicked"}) =>
            /\ BlockReadLittleEndian(c)
            /\ s[c] # NoValue =>
                /\ s[c] = SIGMA_SCHEDULE[LastRound(c) % 10]
                /\ g_done[c] = EightCalls(m[c], s[c])

\* a call is past round r = 11, which reused SIGMA[1], all eight calls of G
\* made
RoundElevenReusedSigmaOne ==
    /\ pc[1] = "rounds"
    /\ r[1] = 12
    /\ s[1] = SIGMA_SCHEDULE[1]
    /\ Len(g_done[1]) = 8

\* the bitwise exclusive or of two bits
BitXor(p, q) == (p + q) % 2

\* C12: before the first round v[0..8) are the eight starting-state words
\* unchanged, v[8..12) = IV[0..4), v[12] = counters[0] XOR IV[4], v[13] =
\* counters[1] XOR IV[5], v[14] = IV[6] XOR (2^64 - 1) when the flag is true
\* and IV[6] when it is false, and v[15] = IV[7]; the flag influences no word
\* other than v[14] and the counters no words other than v[12] and v[13].
C12_InitialWorkingVector ==
    \A c \in Calls :
        (pc[c] = "rounds" /\ r[c] = 0) =>
            /\ DOMAIN v[c] = 0..15
            /\ \A i \in 0..7 : v[c][i] = ret[c].val.h_starting_state[i + 1]
            /\ \A i \in 0..3 : v[c][8 + i] = IV[i]
            /\ \A k \in 1..64 :
                /\ v[c][12][k] = BitXor(ret[c].val.t_offset_counters[1][k], IV[4][k])
                /\ v[c][13][k] = BitXor(ret[c].val.t_offset_counters[2][k], IV[5][k])
                /\ v[c][14][k] = IF ret[c].val.final_block_flag
                                 THEN BitXor(IV[6][k], 1) ELSE IV[6][k]
            /\ v[c][15] = IV[7]
            /\ \A i \in (0..15) \ {14} :
                v[c][i] = InitialVector(args[c].h_starting_state,
                                        args[c].t_offset_counters,
                                        ~args[c].final_block_flag)[i]
            /\ \A i \in (0..15) \ {12, 13} :
                v[c][i] = InitialVector(args[c].h_starting_state,
                                        <<Zeros(64), MASKBITS>>,
                                        args[c].final_block_flag)[i]

\* C12 witness: a call whose flag is true and whose two counters are not
\* zero has filled its working vector and run no round yet.
C12_Witness ==
    /\ pc[1] = "rounds"
    /\ r[1] = 0
    /\ args[1].final_block_flag
    /\ args[1].t_offset_counters[1] # Zeros(64)
    /\ args[1].t_offset_counters[2] # Zeros(64)
    /\ args[1].h_starting_state # StateOf(FAST_EXAMPLES[1].input)

\* the 64-bit right rotation of w by n: bit k of the result is bit
\* (k + n) mod 64 of w
RotateRight(w, n) == [k \in 1..64 |-> w[((k - 1 + n) % 64) + 1]]

\* byte j (0 lowest) of a word as a number, and the eight bits of a number
\* below 256
ByteValue(w, j) ==
    w[8 * j + 1] + 2 * w[8 * j + 2] + 4 * w[8 * j + 3] + 8 * w[8 * j + 4]
    + 16 * w[8 * j + 5] + 32 * w[8 * j + 6] + 64 * w[8 * j + 7] + 128 * w[8 * j + 8]
EightBits(n) ==
    <<n % 2, (n \div 2) % 2, (n \div 4) % 2, (n \div 8) % 2,
      (n \div 16) % 2, (n \div 32) % 2, (n \div 64) % 2, (n \div 128) % 2>>

\* bytes j..7 of x + y, added byte by byte from byte j up, carry being the
\* carry of the bytes below; the carry out of byte 7 is dropped
RECURSIVE AddFrom(_, _, _, _)
AddFrom(x, y, j, carry) ==
    IF j > 7 THEN <<>>
    ELSE Only({EightBits(t % 256) \o AddFrom(x, y, j + 1, t \div 256) :
               t \in {ByteValue(x, j) + ByteValue(y, j) + carry}})

\* x + y mod 2^64
AddMod(x, y) == Only({AddFrom(p[1], p[2], 0, 0) : p \in {<<x, y>>}})

\* bitwise exclusive or of two words
XorWords(x, y) == [k \in 1..64 |-> BitXor(x[k], y[k])]

\* the updates of the claim on the four words w = <<v[a], v[b], v[c], v[d]>>
\* v[a] += v[b] + x
UpdateA(w, x) == Only({<<AddMod(AddMod(p[1], p[2]), x), p[2], p[3], p[4]>> : p \in {w}})
\* v[d] = rotr(v[d] XOR v[a], n)
UpdateD(w, n) == Only({<<p[1], p[2], p[3], AsSeq(RotateRight(XorWords(p[4], p[1]), n))>> : p \in {w}})
\* v[c] += v[d]
UpdateC(w) == Only({<<p[1], p[2], AddMod(p[3], p[4]), p[4]>> : p \in {w}})
\* v[b] = rotr(v[b] XOR v[c], n)
UpdateB(w, n) == Only({<<p[1], AsSeq(RotateRight(XorWords(p[2], p[3]), n)), p[3], p[4]>> : p \in {w}})

\* the eight updates in the claim's order
EightUpdates(w, x, y) ==
    UpdateB(UpdateC(UpdateD(UpdateA(
        UpdateB(UpdateC(UpdateD(UpdateA(w, x), 32)), 24), y), 16)), 63)

\* what the call of G in g_call left is what the eight updates give, only
\* v[a], v[b], v[c], v[d] are changed, and rotate_bits is the right rotation
\* for the four amounts
GDidEightUpdates ==
    /\ g_call.after # NoValue
    /\ <<g_call.after[g_call.a], g_call.after[g_call.b],
         g_call.after[g_call.c], g_call.after[g_call.d]>>
           = EightUpdates(<<g_call.v[g_call.a], g_call.v[g_call.b],
                            g_call.v[g_call.c], g_call.v[g_call.d]>>,
                          g_call.x, g_call.y)
    /\ \A i \in (0..15) \ {g_call.a, g_call.b, g_call.c, g_call.d} :
        g_call.after[i] = g_call.v[i]
    /\ \A n \in {32, 24, 16, 63} : \A i \in 0..15 :
        rotate_bits(g_call.v[i], n) = AsSeq(RotateRight(g_call.v[i], n))

\* C13: G(v, a, b, c, d, x, y) performs exactly the eight updates v[a] +=
\* v[b] + x; v[d] = rotr(v[d] XOR v[a], 32); v[c] += v[d]; v[b] = rotr(v[b]
\* XOR v[c], 24); v[a] += v[b] + y; v[d] = rotr(v[d] XOR v[a], 16); v[c] +=
\* v[d]; v[b] = rotr(v[b] XOR v[c], 63), in this order, each reading what the
\* earlier ones wrote; it changes only v[a], v[b], v[c] and v[d]; and
\* rotate_bits(x, n) is the 64-bit right rotation of x by n for n = 32, 24,
\* 16 and 63.
C13_GPerformsEightUpdates ==
    g_call # NoValue => ~g_call.panicked /\ GDidEightUpdates

\* In a build whose additions wrap, G performs the eight updates; in every
\* build it does when no addition overflows, and rotate_bits is the right
\* rotation.
GPerformsEightUpdatesUnlessItPanics ==
    (g_call # NoValue /\ ~g_call.panicked) => GDidEightUpdates

\* a call of G in which additions overflowed has wrapped and returned
GWrapped ==
    /\ g_call # NoValue
    /\ ~overflow_checks
    /\ g_call.v = InitialVector(StateOf(FAST_EXAMPLES[1].input),
                                CountersOf(FAST_EXAMPLES[1].input), TRUE)
    /\ g_call.a = 1
    /\ g_call.after # NoValue

\* C14: after the last round blake2b_compress returns exactly 64 bytes in
\* which, for every i in 0..7 and j in 0..7, byte 8i + j is byte j (least
\* significant first) of starting_state[i] XOR v[i] XOR v[i + 8], where
\* starting_state is the caller's original state, which the rounds did not
\* modify, and v is the working vector after the last round.
C14_ResultBytes ==
    \A c \in Calls :
        pc[c] = "returned" =>
            /\ r[c] = args[c].num_rounds
            /\ args[c].h_starting_state = ret[c].val.h_starting_state
            /\ result[c].tag = "Ok"
            /\ Len(result[c].val) = 64
            /\ \A n \in 1..64 : result[c].val[n] \in 0..255
            /\ \A i \in 0..7 : \A j \in 0..7 : \A k \in 0..7 :
                BitOf(result[c].val[(8 * i + j) + 1], k)
                    = BitXor(BitXor(ret[c].val.h_starting_state[i + 1][(8 * j + k) + 1],
                                    v[c][i][(8 * j + k) + 1]),
                             v[c][i + 8][(8 * j + k) + 1])

\* C14 witness: a call with round count 2 on a state that is not the
\* example's has run its two rounds and returned.
C14_Witness ==
    /\ pc[1] = "returned"
    /\ args[1].num_rounds = 2
    /\ r[1] = 2
    /\ args[1].h_starting_state # StateOf(FAST_EXAMPLES[1].input)
    /\ v[1] # InitialVector(args[1].h_starting_state, args[1].t_offset_counters,
                            args[1].final_block_flag)

=============================================================================
